---- MODULE Spec2Model ----
(***************************************************************************)
(* Model of parity-wasm's native function bridge                           *)
(* (src/interpreter/env_native.rs) and of its conformance harness          *)
(* (spec/src/run.rs).                                                      *)
(*                                                                         *)
(*   Spec           one caller driving every operation of the bridge       *)
(*   FairSpec       the same caller, which keeps running                   *)
(*   LockSpec       several callers inside call_internal_function          *)
(*   ReentrantSpec  callers whose execute re-enters the interpreter        *)
(*   EqSpec         UserFunctionDescriptor::eq on pairs of descriptors     *)
(*   LiteralSpec    runtime_value on literals around the width edges       *)
(*   HarnessSpec    the command loop of the conformance harness            *)
(***************************************************************************)
EXTENDS Integers, Sequences, FiniteSets, TLC

VARIABLES
    \* NativeModuleInstance
    functions,   \* the descriptor list (Cow<[UserFunctionDescriptor]>)
    by_name,     \* HashMap<String, u32>: name -> position (0-based)
    executor,    \* RwLock around the executor: "free" or the thread holding write()
    pc,          \* per caller: where it is inside call_internal_function
    call,        \* per caller: the arguments of its call_internal_function in progress
    held,        \* per caller: the calls whose execute has re-entered the interpreter
    inflight,    \* UserFunctionExecutor::execute invocations in progress
    last,        \* the last completed operation: arguments, base's answer, bridge's answer
    \* UserFunctionDescriptor::eq
    d1, d2, eq,
    \* conformance harness
    commands,    \* spec.commands
    ip,          \* position (1-based) of the next command
    module,      \* the current module instance (0: none bound)
    programs,    \* ProgramInstance values created so far
    instances,   \* module instances created so far: instance id -> the program that
                 \* owns it and the position of the command that loaded it
    status,      \* "init", "aborted", "start", "running", "passed", "panicked"
    executed,    \* positions of the commands executed so far, in order
    invoked,     \* log of run_action calls: command position and instance used
    outcome,     \* what the last assertion saw
    \* literal decoding
    number,      \* the unsigned number a literal is written from (16-bit limbs)
    literal,     \* test::RuntimeValue: a type tag and a string of characters
    decoded      \* what runtime_value made of the literal

bridgeVars  == <<functions, by_name, executor, pc, call, held, inflight, last>>
eqVars      == <<d1, d2, eq>>
harnessVars == <<commands, ip, module, programs, instances, status, executed, invoked, outcome>>
literalVars == <<number, literal, decoded>>
vars        == <<bridgeVars, eqVars, harnessVars, literalVars>>

(***************************************************************************)
(* Bounds                                                                  *)
(***************************************************************************)
MaxFuncs    == 2   \* longest descriptor list given to NativeModuleInstance::new
MaxParams   == 2   \* longest parameter list of a descriptor compared by eq
MaxCommands == 3   \* longest command script
MaxDepth    == 1   \* deepest re-entry of the interpreter from inside execute

(***************************************************************************)
(* Descriptors                                                             *)
(***************************************************************************)
NATIVE_INDEX_FUNC_MIN == 10001

ValueTypes == {"I32", "F64"}
ReturnTypes == {"None"} \cup ValueTypes       \* Option<ValueType>
Names == {"f", "g"}

SeqsUpTo(S, n) == UNION {[1..k -> S] : k \in 0..n}

\* UserFunctionDescriptor::statik
statik(n, params, result) ==
    [variant |-> "Static", f0 |-> n, f1 |-> params, f2 |-> result]

\* UserFunctionDescriptor::heap
heap(n, params, result) ==
    [variant |-> "Heap", f0 |-> n, f1 |-> params, f2 |-> result]

Descriptors ==
    {statik(n, p, r) : n \in Names, p \in SeqsUpTo(ValueTypes, MaxParams), r \in ReturnTypes}
    \cup {heap(n, p, r) : n \in Names, p \in SeqsUpTo(ValueTypes, MaxParams), r \in ReturnTypes}

\* UserFunctionDescriptor::name
name(self) == IF self.variant = "Static" THEN self.f0 ELSE self.f0

\* UserFunctionDescriptor::params
params(self) == IF self.variant = "Static" THEN self.f1 ELSE self.f1

\* UserFunctionDescriptor::return_type
return_type(self) == IF self.variant = "Static" THEN self.f2 ELSE self.f2

\* [ValueType] == [ValueType]: same length, equal element by element
SliceEq(a, b) == Len(a) = Len(b) /\ \A i \in 1..Len(a) : a[i] = b[i]

\* mutant of DescriptorEq: a derived PartialEq, which compares the name too
DescriptorEqDerived(self, other) ==
    /\ name(self) = name(other)
    /\ SliceEq(params(self), params(other))
    /\ return_type(self) = return_type(other)

\* impl PartialEq for UserFunctionDescriptor
DescriptorEq(self, other) ==
    /\ SliceEq(params(self), params(other))
    /\ return_type(self) = return_type(other)

(***************************************************************************)
(* Results: Result<T, Error>, and a panic                                  *)
(***************************************************************************)
\* FunctionSignature::Module(&FunctionType) and FunctionSignature::User(&UserFunctionDescriptor)
ModuleSig(p, r) == [sig |-> "Module", desc |-> heap("", p, r)]
UserSig(d)      == [sig |-> "User", desc |-> d]
SigParams(s)    == params(s.desc)
SigReturn(s)    == return_type(s.desc)
NoSig           == [sig |-> "none", desc |-> heap("", <<>>, "None")]

\* every result is one record: the tag; the kind of value or of error; the index an
\* Internal or an error message carries; the signature a FunctionSignature carries
Ok(kind)          == [tag |-> "Ok", kind |-> kind, index |-> 0, sig |-> NoSig]
Internal(kind, i) == [tag |-> "Ok", kind |-> kind, index |-> i, sig |-> NoSig]
OkSig(s)          == [tag |-> "Ok", kind |-> "Signature", index |-> 0, sig |-> s]
Err(kind, i)      == [tag |-> "Err", kind |-> kind, index |-> i, sig |-> NoSig]
Panic(msg)        == [tag |-> "Panic", kind |-> msg, index |-> 0, sig |-> NoSig]

\* Result<Option<RuntimeValue>, Error> as answered by the base instance or the executor
ValueAnswers == {Ok("None"), Ok("Some"), Err("Trap", 0)}
\* Result<Arc<..>, Error> / Result<InternalFunctionReference, Error>
HandleAnswers == {Ok("handle"), Err("Function", 0)}
\* Result<Option<InternalFunction>, Error>
BodyAnswers == {Ok("None"), Ok("Some"), Err("Function", 0)}
\* Result<Internal, Error>; the wrapped module has fewer than NATIVE_INDEX_FUNC_MIN functions
ExportAnswers == {Internal("Function", 0), Internal("Global", 0), Err("Function", 0)}

\* FunctionSignature == FunctionSignature: the (params, return type) the two expose
FunctionSignatureEq(a, b) ==
    SliceEq(SigParams(a), SigParams(b)) /\ SigReturn(a) = SigReturn(b)

\* the signatures a caller asks for, and the base instance answers with
RequiredSigs == {ModuleSig(<<>>, "None"), ModuleSig(<<"I32">>, "I32")}
TypeAnswers == {OkSig(s) : s \in RequiredSigs} \cup {Err("Function", 0)}

\* ExportEntryType
RequiredTypes == {[kind |-> "Function", sig |-> s] : s \in RequiredSigs}
                 \cup {[kind |-> "Global", sig |-> NoSig]}
NoRequired == [kind |-> "none", sig |-> NoSig]

\* the arguments of an operation: an ItemIndex or a plain index, a name, a required type
Args(variant, i, n, required_type) ==
    [variant |-> variant, index |-> i, name |-> n, required_type |-> required_type,
     outer |-> "none"]

\* ItemIndex
ItemIndex(variant, i) == Args(variant, i, "", NoRequired)
Variants == {"IndexSpace", "Internal", "External"}
\* a u32 argument, a &str argument
Index(i) == Args("u32", i, "", NoRequired)
Name(n)  == Args("str", 0, n, NoRequired)
\* the arguments of call_internal_function: the caller's context and an index
Contexts == {"ctx1", "ctx2"}
Call(outer, i) == [Args("u32", i, "", NoRequired) EXCEPT !.outer = outer]
NoCall == Call("none", 0)

(***************************************************************************)
(* Inputs of the bridge                                                    *)
(***************************************************************************)
Threads == {"t1", "t2"}
MainThread == "t1"

\* the descriptors the embedder registers
HostFunctions ==
    { statik("f", <<>>, "None"), heap("f", <<"I32">>, "I32"),
      statik("g", <<"I32">>, "I32"), heap("g", <<>>, "None") }

\* export names asked for: the registered ones and one that never is
ExportNames == Names \cup {"h"}

\* function indices asked for: below the boundary, and every offset up to one past the list
Indices == {0, NATIVE_INDEX_FUNC_MIN - 1}
           \cup {NATIVE_INDEX_FUNC_MIN + k : k \in 0..MaxFuncs}

(***************************************************************************)
(* NativeModuleInstance                                                    *)
(***************************************************************************)
RECURSIVE CollectByNameFirstWins(_, _, _)
\* mutant of CollectByName: an entry already present is kept
CollectByNameFirstWins(fs, i, map) ==
    IF i > Len(fs) THEN map
    ELSE CollectByNameFirstWins(fs, i + 1,
            [n \in DOMAIN map \cup {name(fs[i])} |->
                IF n \in DOMAIN map THEN map[n] ELSE i - 1])

RECURSIVE CollectByNameOneBased(_, _, _)
\* mutant of CollectByName: positions are counted from one
CollectByNameOneBased(fs, i, map) ==
    IF i > Len(fs) THEN map
    ELSE CollectByNameOneBased(fs, i + 1,
            [n \in DOMAIN map \cup {name(fs[i])} |->
                IF n = name(fs[i]) THEN i ELSE map[n]])

RECURSIVE CollectByName(_, _, _)
\* functions.iter().enumerate().map(|(i, f)| (name, i)).collect::<HashMap>():
\* entries are inserted in order, a later one replacing an earlier one
CollectByName(fs, i, map) ==
    IF i > Len(fs) THEN map
    ELSE CollectByName(fs, i + 1,
            [n \in DOMAIN map \cup {name(fs[i])} |->
                IF n = name(fs[i]) THEN i - 1 ELSE map[n]])

EmptyMap == [n \in {} |-> 0]

\* NativeModuleInstance::new: the by_name field
NewByName(fs) == CollectByName(fs, 1, EmptyMap)

\* self.functions.get(i as usize): a sequence holding the element, or empty
FunctionsGet(i) == IF i < Len(functions) THEN <<functions[i + 1]>> ELSE <<>>

\* mutant of function_type: the boundary is drawn one index too low
function_type_low_boundary(function_index, base_ft) ==
    IF function_index.variant = "External"
    THEN Panic("unreachable")
    ELSE LET index == function_index.index IN
         IF index < NATIVE_INDEX_FUNC_MIN - 1
         THEN base_ft
         ELSE LET f == IF index < NATIVE_INDEX_FUNC_MIN THEN <<>>
                       ELSE FunctionsGet(index - NATIVE_INDEX_FUNC_MIN) IN
              IF f = <<>> THEN Err("Native", index) ELSE OkSig(UserSig(f[1]))

\* NativeModuleInstance::function_type; base_ft is self.env.function_type(function_index)
function_type(function_index, base_ft) ==
    IF function_index.variant = "External"
    THEN Panic("unreachable")
    ELSE LET index == function_index.index IN
         IF index < NATIVE_INDEX_FUNC_MIN
         THEN base_ft
         ELSE LET f == FunctionsGet(index - NATIVE_INDEX_FUNC_MIN) IN
              IF f = <<>> THEN Err("Native", index) ELSE OkSig(UserSig(f[1]))

\* mutant of export_entry: a registered name shadows the base whatever the signature
export_entry_unchecked(n, required_type, base_ft, base_export) ==
    IF n \in DOMAIN by_name /\ required_type.kind = "Function"
    THEN Internal("Function", NATIVE_INDEX_FUNC_MIN + by_name[n])
    ELSE base_export

\* NativeModuleInstance::export_entry; base_export is self.env.export_entry(name, required_type)
export_entry(n, required_type, base_ft, base_export) ==
    IF n \in DOMAIN by_name
    THEN LET composite_index == NATIVE_INDEX_FUNC_MIN + by_name[n]
             ft == function_type(ItemIndex("Internal", composite_index), base_ft)
         IN  IF required_type.kind = "Function"
             THEN IF ft.tag # "Ok"
                  THEN Panic("expect")
                  ELSE IF FunctionSignatureEq(ft.sig, required_type.sig)
                       THEN Internal("Function", composite_index)
                       ELSE base_export
             ELSE base_export
    ELSE base_export

\* NativeModuleInstance::function_type_by_index;
\* base_ft is self.env.function_type(ItemIndex::Internal(type_index))
function_type_by_index(type_index, base_ft) ==
    function_type(ItemIndex("Internal", type_index), base_ft)

\* NativeModuleInstance::function_body
function_body(internal_index) == Ok("None")

\* the pure delegations: self.env.<operation>(..)
execute_index(base) == base
\* mutant of execute_export: an error of the base is turned into "no value"
execute_export_lenient(base) == IF base.tag = "Err" THEN Ok("None") ELSE base
execute_export(base) == base
table(base) == base
memory(base) == base
global(base) == base
function_reference(base) == base
function_reference_indirect(base) == base

(***************************************************************************)
(* call_internal_function: the lookup, the write lock, the executor        *)
(***************************************************************************)
\* mutant of CallRoute: a missing descriptor falls back to the base
CallRouteFallback(index) ==
    IF index < NATIVE_INDEX_FUNC_MIN THEN "env"
    ELSE IF FunctionsGet(index - NATIVE_INDEX_FUNC_MIN) = <<>> THEN "env"
    ELSE "native"

\* call_internal_function: which way the call goes
CallRoute(index) ==
    IF index < NATIVE_INDEX_FUNC_MIN THEN "env"
    ELSE IF FunctionsGet(index - NATIVE_INDEX_FUNC_MIN) = <<>> THEN "missing"
    ELSE "native"

\* mutant of ExecuteName: the position is taken one too low
ExecuteNameOffByOne(index) ==
    IF index = NATIVE_INDEX_FUNC_MIN THEN name(functions[1])
    ELSE name(FunctionsGet(index - NATIVE_INDEX_FUNC_MIN - 1)[1])

\* the name execute is given: f.name() of the descriptor at index - NATIVE_INDEX_FUNC_MIN
ExecuteName(index) == name(FunctionsGet(index - NATIVE_INDEX_FUNC_MIN)[1])

\* mutant of GuardDropped: the write guard is leaked when execute fails
GuardDroppedOnOk(t, result) == IF result.tag = "Ok" THEN "free" ELSE t

\* the write guard is a temporary of the closure: it is dropped when execute has
\* returned, whatever it returned
GuardDropped(t, result) == "free"

\* mutant of RwLockWritable: a re-entrant lock, granted again to a holder that asks
RwLockReentrant == executor = "free" \/ (executor \in Threads /\ pc[executor] = "write")

\* mutant of RwLockWritable: read() instead of write(), which does not exclude
RwLockShared == TRUE

\* RwLock::write() returns only while no other guard is alive
RwLockWritable == executor = "free"

NoOp == [thread |-> "none", op |-> "none", arg |-> Index(0), base |-> Ok("None"),
         out |-> Ok("None"), execs |-> <<>>]

\* an operation of the interface returns to its caller
Return(t, op, arg, base, out, execs) ==
    last' = [thread |-> t, op |-> op, arg |-> arg, base |-> base, out |-> out,
             execs |-> execs]

\* the caller is outside the bridge, and the previous result has been taken
Idle(t) == pc[t] = "idle" /\ last.op = "none"

\* the caller takes the result of the operation that returned
Consume ==
    /\ last.op # "none"
    /\ last' = NoOp
    /\ UNCHANGED <<functions, by_name, executor, pc, call, held, inflight>>

Sequential(t, op, arg, base, out) ==
    /\ Idle(t)
    /\ Return(t, op, arg, base, out, <<>>)
    /\ UNCHANGED <<functions, by_name, executor, pc, call, held, inflight>>

ExecuteIndex(t) ==
    \E index \in Indices, base \in ValueAnswers :
        Sequential(t, "execute_index", Index(index), base, execute_index(base))

ExecuteExport(t) ==
    \E n \in ExportNames, base \in ValueAnswers :
        Sequential(t, "execute_export", Name(n), base, execute_export(base))

ExportEntry(t) ==
    \E n \in ExportNames, required_type \in RequiredTypes,
       base_ft \in TypeAnswers, base \in ExportAnswers :
        Sequential(t, "export_entry", Args("str", 0, n, required_type),
                   base, export_entry(n, required_type, base_ft, base))

Table(t) ==
    \E v \in Variants, index \in Indices, base \in HandleAnswers :
        Sequential(t, "table", ItemIndex(v, index), base, table(base))

Memory(t) ==
    \E v \in Variants, index \in Indices, base \in HandleAnswers :
        Sequential(t, "memory", ItemIndex(v, index), base, memory(base))

Global(t) ==
    \E v \in Variants, index \in Indices, base \in HandleAnswers :
        Sequential(t, "global", ItemIndex(v, index), base, global(base))

FunctionType(t) ==
    \E v \in Variants, index \in Indices, base \in TypeAnswers :
        Sequential(t, "function_type", ItemIndex(v, index), base,
                   function_type(ItemIndex(v, index), base))

\* base is self.env.function_type_by_index(type_index), which the code never asks for;
\* base_ft is self.env.function_type(Internal(type_index)), which it does
FunctionTypeByIndex(t) ==
    \E type_index \in Indices, base \in TypeAnswers, base_ft \in TypeAnswers :
        Sequential(t, "function_type_by_index", Index(type_index), base,
                   function_type_by_index(type_index, base_ft))

FunctionReference(t) ==
    \E v \in Variants, index \in Indices, base \in HandleAnswers :
        Sequential(t, "function_reference", ItemIndex(v, index), base,
                   function_reference(base))

FunctionReferenceIndirect(t) ==
    \E func_idx \in Indices, base \in HandleAnswers :
        Sequential(t, "function_reference_indirect", Index(func_idx), base,
                   function_reference_indirect(base))

FunctionBody(t) ==
    \E internal_index \in Indices, base \in BodyAnswers :
        Sequential(t, "function_body", Index(internal_index), base,
                   function_body(internal_index))

\* call_internal_function up to the point where it asks for the executor
CallInternalFunction(t) ==
    \E outer \in Contexts, index \in Indices, base \in ValueAnswers :
        /\ Idle(t)
        /\ UNCHANGED <<functions, by_name, executor, held, inflight>>
        /\ CASE CallRoute(index) = "env" ->
                    /\ Return(t, "call_internal_function", Call(outer, index), base, base,
                              <<>>)
                    /\ UNCHANGED <<pc, call>>
             [] CallRoute(index) = "missing" ->
                    /\ Return(t, "call_internal_function", Call(outer, index), base,
                              Err("Native", index), <<>>)
                    /\ UNCHANGED <<pc, call>>
             [] CallRoute(index) = "native" ->
                    /\ pc' = [pc EXCEPT ![t] = "write"]
                    /\ call' = [call EXCEPT ![t] = Call(outer, index)]
                    /\ UNCHANGED last

\* the execute invocation of caller t that has not returned and has not re-entered
Executing(t) == CHOOSE x \in inflight : x.thread = t /\ x.depth = Len(held[t])

\* self.executor.write() is granted and execute(&f.name(), outer) begins
ExecutorWrite(t) ==
    /\ pc[t] = "write"
    /\ RwLockWritable
    /\ executor' = t
    /\ pc' = [pc EXCEPT ![t] = "execute"]
    /\ inflight' = inflight \cup
          {[thread |-> t, depth |-> Len(held[t]), name |-> ExecuteName(call[t].index),
            outer |-> call[t].outer]}
    /\ UNCHANGED <<functions, by_name, call, held, last>>

\* execute returns; the write guard is dropped; the outcome is the call's result
ExecutorReturn(t) ==
    \E result \in ValueAnswers \cup {Err("Native", 0)}, base \in ValueAnswers :
        /\ pc[t] = "execute"
        /\ last.op = "none"
        /\ inflight' = inflight \ {Executing(t)}
        /\ executor' = GuardDropped(t, result)
        /\ pc' = [pc EXCEPT ![t] = "idle"]
        /\ call' = [call EXCEPT ![t] = NoCall]
        /\ Return(t, "call_internal_function", call[t], base, result,
                  <<[name |-> Executing(t).name, outer |-> Executing(t).outer,
                     result |-> result]>>)
        /\ UNCHANGED <<functions, by_name, held>>

\* execute, while it holds the executor, re-enters the interpreter: its caller is
\* again outside the bridge and may call any operation of the same bridge
Reenter(t) ==
    /\ pc[t] = "execute"
    /\ Len(held[t]) < MaxDepth
    /\ held' = [held EXCEPT ![t] = Append(held[t], call[t])]
    /\ pc' = [pc EXCEPT ![t] = "idle"]
    /\ call' = [call EXCEPT ![t] = NoCall]
    /\ UNCHANGED <<functions, by_name, executor, inflight, last>>

\* the interpreter that execute re-entered returns to it
Resume(t) ==
    /\ Idle(t)
    /\ held[t] # <<>>
    /\ pc' = [pc EXCEPT ![t] = "execute"]
    /\ call' = [call EXCEPT ![t] = held[t][Len(held[t])]]
    /\ held' = [held EXCEPT ![t] = SubSeq(held[t], 1, Len(held[t]) - 1)]
    /\ UNCHANGED <<functions, by_name, executor, inflight, last>>

(***************************************************************************)
(* Specifications of the bridge                                            *)
(***************************************************************************)
BridgeInit ==
    /\ functions \in SeqsUpTo(HostFunctions, MaxFuncs)
    /\ by_name = NewByName(functions)
    /\ executor = "free"
    /\ pc = [t \in Threads |-> "idle"]
    /\ call = [t \in Threads |-> NoCall]
    /\ held = [t \in Threads |-> <<>>]
    /\ inflight = {}
    /\ last = NoOp

BridgeUnused ==
    /\ functions = <<>>
    /\ by_name = EmptyMap
    /\ executor = "free"
    /\ pc = [t \in Threads |-> "idle"]
    /\ call = [t \in Threads |-> NoCall]
    /\ held = [t \in Threads |-> <<>>]
    /\ inflight = {}
    /\ last = NoOp

EqUnused == d1 = statik("f", <<>>, "None") /\ d2 = statik("f", <<>>, "None") /\ eq = "unset"

NoOutcome == [cmd |-> 0, type |-> "none", invoked |-> FALSE, passed |-> FALSE,
              result |-> [tag |-> "none", some |-> FALSE, v |-> [type |-> "I32", int |-> 0, neg |-> FALSE, bits |-> <<>>],
                          kind |-> "none"]]

HarnessUnused ==
    /\ commands = <<>>
    /\ ip = 1
    /\ module = 0
    /\ programs = 0
    /\ instances = <<>>
    /\ status = "start"
    /\ executed = <<>>
    /\ invoked = <<>>
    /\ outcome = NoOutcome

NotDecoded == [done |-> FALSE, ok |-> FALSE,
               v |-> [type |-> "I32", int |-> 0, neg |-> FALSE, bits |-> <<>>]]

LiteralUnused ==
    /\ number = <<>>
    /\ literal = [value_type |-> "i32", value |-> <<>>]
    /\ decoded = NotDecoded

Init == BridgeInit /\ EqUnused /\ HarnessUnused /\ LiteralUnused

Next ==
    \/ ExecuteIndex(MainThread) /\ UNCHANGED <<eqVars, harnessVars, literalVars>>
    \/ ExecuteExport(MainThread) /\ UNCHANGED <<eqVars, harnessVars, literalVars>>
    \/ ExportEntry(MainThread) /\ UNCHANGED <<eqVars, harnessVars, literalVars>>
    \/ Table(MainThread) /\ UNCHANGED <<eqVars, harnessVars, literalVars>>
    \/ Memory(MainThread) /\ UNCHANGED <<eqVars, harnessVars, literalVars>>
    \/ Global(MainThread) /\ UNCHANGED <<eqVars, harnessVars, literalVars>>
    \/ FunctionType(MainThread) /\ UNCHANGED <<eqVars, harnessVars, literalVars>>
    \/ FunctionTypeByIndex(MainThread) /\ UNCHANGED <<eqVars, harnessVars, literalVars>>
    \/ FunctionReference(MainThread) /\ UNCHANGED <<eqVars, harnessVars, literalVars>>
    \/ FunctionReferenceIndirect(MainThread) /\ UNCHANGED <<eqVars, harnessVars, literalVars>>
    \/ FunctionBody(MainThread) /\ UNCHANGED <<eqVars, harnessVars, literalVars>>
    \/ CallInternalFunction(MainThread) /\ UNCHANGED <<eqVars, harnessVars, literalVars>>
    \/ ExecutorWrite(MainThread) /\ UNCHANGED <<eqVars, harnessVars, literalVars>>
    \/ ExecutorReturn(MainThread) /\ UNCHANGED <<eqVars, harnessVars, literalVars>>
    \/ Consume /\ UNCHANGED <<eqVars, harnessVars, literalVars>>

Spec == Init /\ [][Next]_vars

LockNext ==
    \/ \E t \in Threads :
          \/ CallInternalFunction(t) /\ UNCHANGED <<eqVars, harnessVars, literalVars>>
          \/ ExecutorWrite(t) /\ UNCHANGED <<eqVars, harnessVars, literalVars>>
          \/ ExecutorReturn(t) /\ UNCHANGED <<eqVars, harnessVars, literalVars>>
    \/ Consume /\ UNCHANGED <<eqVars, harnessVars, literalVars>>

LockSpec == Init /\ [][LockNext]_vars

\* one caller, which keeps running, and whose execute returns
FairSpec ==
    /\ Init /\ [][Next]_vars
    /\ WF_vars(ExecutorWrite(MainThread) /\ UNCHANGED <<eqVars, harnessVars, literalVars>>)
    /\ WF_vars(ExecutorReturn(MainThread) /\ UNCHANGED <<eqVars, harnessVars, literalVars>>)

\* callers whose execute may re-enter the interpreter and call the bridge again
ReentrantNext ==
    \/ \E t \in Threads :
          \/ CallInternalFunction(t) /\ UNCHANGED <<eqVars, harnessVars, literalVars>>
          \/ ExecutorWrite(t) /\ UNCHANGED <<eqVars, harnessVars, literalVars>>
          \/ ExecutorReturn(t) /\ UNCHANGED <<eqVars, harnessVars, literalVars>>
          \/ Reenter(t) /\ UNCHANGED <<eqVars, harnessVars, literalVars>>
          \/ Resume(t) /\ UNCHANGED <<eqVars, harnessVars, literalVars>>
    \/ Consume /\ UNCHANGED <<eqVars, harnessVars, literalVars>>

ReentrantSpec == Init /\ [][ReentrantNext]_vars

(***************************************************************************)
(* UserFunctionDescriptor::eq on every pair of descriptors                 *)
(***************************************************************************)
EqInit ==
    /\ d1 \in Descriptors
    /\ d2 \in Descriptors
    /\ eq = "unset"
    /\ BridgeUnused /\ HarnessUnused /\ LiteralUnused

\* d1 == d2
Compare ==
    /\ eq = "unset"
    /\ eq' = IF DescriptorEq(d1, d2) THEN "true" ELSE "false"
    /\ UNCHANGED <<d1, d2, bridgeVars, harnessVars, literalVars>>

EqNext == Compare

EqSpec == EqInit /\ [][EqNext]_vars

(***************************************************************************)
(* Conformance harness: literals                                           *)
(***************************************************************************)
\* unsigned integers wider than the checker's are kept as 16-bit limbs, lowest first
Limb == 2^16

DigitChars == <<"0", "1", "2", "3", "4", "5", "6", "7", "8", "9">>
IsDigit(c) == \E i \in 1..10 : DigitChars[i] = c
DigitOf(c) == (CHOOSE i \in 1..10 : DigitChars[i] = c) - 1

Zero(nlimbs) == [i \in 1..nlimbs |-> 0]

RECURSIVE MulAdd(_, _, _, _)
\* limbs * 10 + carry, from limb i upwards; the last carry is appended as an extra limb
MulAdd(limbs, i, carry, acc) ==
    IF i > Len(limbs) THEN Append(acc, carry)
    ELSE LET x == limbs[i] * 10 + carry
         IN  MulAdd(limbs, i + 1, x \div Limb, Append(acc, x % Limb))

RECURSIVE ParseDigits(_, _, _)
\* checked_mul(10) and checked_add(digit) over the digits: <<>> on overflow or a non-digit
ParseDigits(str, i, limbs) ==
    IF i > Len(str) THEN <<limbs>>
    ELSE IF ~IsDigit(str[i]) THEN <<>>
    ELSE LET next == MulAdd(limbs, 1, DigitOf(str[i]), <<>>)
         IN  IF next[Len(next)] # 0 THEN <<>>
             ELSE ParseDigits(str, i + 1, SubSeq(next, 1, Len(limbs)))

\* str.parse::<u32>() (nlimbs = 2) and str.parse::<u64>() (nlimbs = 4):
\* an optional "+", then at least one digit; <<>> is Err
ParseUnsigned(str, nlimbs) ==
    LET body == IF str # <<>> /\ str[1] = "+" THEN Tail(str) ELSE str
    IN  IF body = <<>> THEN <<>> ELSE ParseDigits(body, 1, Zero(nlimbs))

\* mutant of AsI32: a value-preserving conversion that saturates at i32::MAX
AsI32Saturating(limbs) ==
    IF limbs[2] >= Limb \div 2
    THEN (Limb \div 2 - 1) * Limb + (Limb - 1)
    ELSE limbs[2] * Limb + limbs[1]

\* unsigned as i32: the same 32 bits read as two's complement
AsI32(limbs) ==
    IF limbs[2] >= Limb \div 2
    THEN (limbs[2] - Limb) * Limb + limbs[1]
    ELSE limbs[2] * Limb + limbs[1]

RECURSIVE Negate(_, _, _, _)
\* 2^(16 * Len) - limbs: complement every limb and add one
Negate(limbs, i, carry, acc) ==
    IF i > Len(limbs) THEN acc
    ELSE LET x == (Limb - 1 - limbs[i]) + carry
         IN  Negate(limbs, i + 1, x \div Limb, Append(acc, x % Limb))

\* unsigned as i64: the same 64 bits read as two's complement, as sign and magnitude
AsI64(limbs) ==
    IF limbs[4] >= Limb \div 2
    THEN [neg |-> TRUE, mag |-> Negate(limbs, 1, 1, <<>>)]
    ELSE [neg |-> FALSE, mag |-> limbs]

\* parity_wasm::RuntimeValue
\* (I32 holds its value; I64 its sign and magnitude; F32 and F64 their bits)
I32(v) == [type |-> "I32", int |-> v, neg |-> FALSE, bits |-> <<>>]
I64(v) == [type |-> "I64", int |-> 0, neg |-> v.neg, bits |-> v.mag]
F32(bits) == [type |-> "F32", int |-> 0, neg |-> FALSE, bits |-> bits]
F64(bits) == [type |-> "F64", int |-> 0, neg |-> FALSE, bits |-> bits]

\* RuntimeValue::decode_f32 / decode_f64: the float that has exactly these bits
decode_f32(bits) == F32(bits)
decode_f64(bits) == F64(bits)

\* RuntimeValue == RuntimeValue, as used by assert_eq!: same variant, same bits
RuntimeValueEq(a, b) ==
    a.type = b.type /\ a.int = b.int /\ a.neg = b.neg /\ a.bits = b.bits

\* Vec<RuntimeValue> == Vec<RuntimeValue>
VecEq(xs, ys) ==
    Len(xs) = Len(ys) /\ \A i \in 1..Len(xs) : RuntimeValueEq(xs[i], ys[i])

\* test::RuntimeValue
Literal(value_type, value) == [value_type |-> value_type, value |-> value]

Decoded(v) == [ok |-> TRUE, v |-> v]
DecodePanic == [ok |-> FALSE, v |-> I32(0)]

\* f32 bits with all exponent bits set and a mantissa that is not zero
IsNaN32(bits) ==
    /\ (bits[2] % (Limb \div 2)) \div 128 = 255
    /\ ((bits[2] % 128) # 0 \/ bits[1] # 0)

\* mutant of runtime_value: an f32 literal goes through a float conversion that
\* keeps no NaN payload (every NaN becomes the canonical one)
runtime_value_canonical(test_val) ==
    LET u32 == ParseUnsigned(test_val.value, 2)
        u64 == ParseUnsigned(test_val.value, 4)
    IN  CASE test_val.value_type = "i32" ->
                IF u32 = <<>> THEN DecodePanic ELSE Decoded(I32(AsI32(u32[1])))
          [] test_val.value_type = "i64" ->
                IF u64 = <<>> THEN DecodePanic ELSE Decoded(I64(AsI64(u64[1])))
          [] test_val.value_type = "f32" ->
                IF u32 = <<>> THEN DecodePanic
                ELSE IF IsNaN32(u32[1]) THEN Decoded(decode_f32(<<0, 32704>>))
                ELSE Decoded(decode_f32(u32[1]))
          [] test_val.value_type = "f64" ->
                IF u64 = <<>> THEN DecodePanic ELSE Decoded(decode_f64(u64[1]))
          [] OTHER -> DecodePanic

\* runtime_value
runtime_value(test_val) ==
    LET u32 == ParseUnsigned(test_val.value, 2)
        u64 == ParseUnsigned(test_val.value, 4)
    IN  CASE test_val.value_type = "i32" ->
                IF u32 = <<>> THEN DecodePanic ELSE Decoded(I32(AsI32(u32[1])))
          [] test_val.value_type = "i64" ->
                IF u64 = <<>> THEN DecodePanic ELSE Decoded(I64(AsI64(u64[1])))
          [] test_val.value_type = "f32" ->
                IF u32 = <<>> THEN DecodePanic ELSE Decoded(decode_f32(u32[1]))
          [] test_val.value_type = "f64" ->
                IF u64 = <<>> THEN DecodePanic ELSE Decoded(decode_f64(u64[1]))
          [] OTHER -> DecodePanic

\* runtime_values: every literal decoded, in order; a panic in any of them is a panic
runtime_values(test_vals) ==
    IF \E i \in 1..Len(test_vals) : ~runtime_value(test_vals[i]).ok
    THEN [ok |-> FALSE, vals |-> <<>>]
    ELSE [ok |-> TRUE, vals |-> [i \in 1..Len(test_vals) |-> runtime_value(test_vals[i]).v]]

(***************************************************************************)
(* Literal decoding on its own: runtime_value on literals written from     *)
(* numbers around the edges of the two widths                              *)
(***************************************************************************)
\* 0, 1, 3, 2^31 - 1, 2^31, 2^32 - 1, 2^32, 2^63 - 1, 2^63, 2^64 - 1, 2^64
Samples ==
    { <<0, 0, 0, 0, 0>>, <<1, 0, 0, 0, 0>>, <<3, 0, 0, 0, 0>>,
      <<65535, 32767, 0, 0, 0>>, <<0, 32768, 0, 0, 0>>, <<65535, 65535, 0, 0, 0>>,
      <<0, 0, 1, 0, 0>>,
      <<65535, 65535, 65535, 32767, 0>>, <<0, 0, 0, 32768, 0>>,
      <<65535, 65535, 65535, 65535, 0>>,
      <<0, 0, 0, 0, 1>> }

TypeTags == {"i32", "i64", "f32", "f64", "v128"}

\* how the number is written: its decimal digits, with a "+", with a leading
\* zero, or with a "-"
Spellings == {"plain", "plus", "zero", "minus"}

IsZero(limbs) == \A i \in 1..Len(limbs) : limbs[i] = 0

RECURSIVE DivTen(_, _, _, _)
\* limbs divided by ten, from the highest limb down: quotient and remainder
DivTen(limbs, i, rem, acc) ==
    IF i = 0 THEN [q |-> acc, r |-> rem]
    ELSE LET x == rem * Limb + limbs[i]
         IN  DivTen(limbs, i - 1, x % 10, <<x \div 10>> \o acc)

RECURSIVE DecimalDigits(_, _)
DecimalDigits(limbs, acc) ==
    IF IsZero(limbs) THEN acc
    ELSE LET d == DivTen(limbs, Len(limbs), 0, <<>>)
         IN  DecimalDigits(d.q, <<DigitChars[d.r + 1]>> \o acc)

\* the decimal digits of an unsigned number, most significant first
ToDecimal(limbs) == IF IsZero(limbs) THEN <<"0">> ELSE DecimalDigits(limbs, <<>>)

Spell(spelling, limbs) ==
    CASE spelling = "plain" -> ToDecimal(limbs)
      [] spelling = "plus"  -> <<"+">> \o ToDecimal(limbs)
      [] spelling = "zero"  -> <<"0">> \o ToDecimal(limbs)
      [] spelling = "minus" -> <<"-">> \o ToDecimal(limbs)

LiteralInit ==
    /\ number \in Samples
    /\ \E tag \in TypeTags, spelling \in Spellings :
          literal = Literal(tag, Spell(spelling, number))
    /\ decoded = NotDecoded
    /\ BridgeUnused /\ EqUnused /\ HarnessUnused

\* runtime_value(&literal); ok is FALSE when it panics
Decode ==
    /\ ~decoded.done
    /\ decoded' = [done |-> TRUE, ok |-> runtime_value(literal).ok,
                   v |-> runtime_value(literal).v]
    /\ UNCHANGED <<number, literal, bridgeVars, eqVars, harnessVars>>

LiteralNext == Decode

LiteralSpec == LiteralInit /\ [][LiteralNext]_vars

(***************************************************************************)
(* Conformance harness: scripts                                            *)
(***************************************************************************)
Three == <<"3">>
NaNA  == <<"2", "1", "4", "3", "2", "8", "9", "3", "4", "4">>   \* 0x7FC00000
NaNB  == <<"2", "1", "4", "3", "2", "8", "9", "3", "4", "5">>   \* 0x7FC00001
AllOnes == <<"4", "2", "9", "4", "9", "6", "7", "2", "9", "5">>

\* test::Action::Invoke
Invoke(field, args) == [field |-> field, args |-> args]

\* test::Command
ModuleCommand(filename) ==
    [type |-> "Module", filename |-> filename, action |-> Invoke("", <<>>), expected |-> <<>>]
AssertReturnCommand(action, expected) ==
    [type |-> "AssertReturn", filename |-> "", action |-> action, expected |-> expected]
AssertTrapCommand(action) ==
    [type |-> "AssertTrap", filename |-> "", action |-> action, expected |-> <<>>]

ExpectedLists ==
    { <<>>,
      <<Literal("i32", Three)>>,
      <<Literal("f32", NaNA)>>,
      <<Literal("f32", NaNB)>>,
      <<Literal("i32", Three), Literal("i32", Three)>>,
      <<Literal("v128", Three)>> }

CommandPool ==
    {ModuleCommand("m.wasm")}
    \cup {AssertReturnCommand(Invoke("add", <<Literal("i32", AllOnes)>>), e) : e \in ExpectedLists}
    \cup {AssertTrapCommand(Invoke("div", <<Literal("i32", Three)>>)),
          AssertTrapCommand(Invoke("div", <<Literal("i32", <<"-", "1">>)>>))}

Scripts == SeqsUpTo(CommandPool, MaxCommands)

\* Result<Option<RuntimeValue>, Error> of ModuleInstance::execute_export
ActionOk(some, v) == [tag |-> "Ok", some |-> some, v |-> v, kind |-> "none"]
ActionErr(kind)   == [tag |-> "Err", some |-> FALSE, v |-> I32(0), kind |-> kind]

ResultValues == {I32(3), I32(-1), F32(<<0, 32704>>), F32(<<1, 32704>>), F32(<<0, 65472>>)}

ActionResults ==
    {ActionOk(FALSE, I32(0))}
    \cup {ActionOk(TRUE, v) : v \in ResultValues}
    \cup {ActionErr(k) : k \in {"Trap", "Native", "Function"}}

\* result.into_iter().collect::<Vec<RuntimeValue>>() on an Option
OptionToVec(result) == IF result.some THEN <<result.v>> ELSE <<>>

\* mutant of AssertReturnPasses: only the first expected value is compared
AssertReturnPassesFirstOnly(result, expected) ==
    /\ result.tag = "Ok"
    /\ runtime_values(expected).ok
    /\ LET actual == OptionToVec(result)
           want == runtime_values(expected).vals
       IN  \/ actual = <<>> /\ want = <<>>
           \/ actual # <<>> /\ want # <<>> /\ RuntimeValueEq(actual[1], want[1])

\* the AssertReturn arm: Ok, the expected literals decode, and assert_eq! holds
AssertReturnPasses(result, expected) ==
    /\ result.tag = "Ok"
    /\ runtime_values(expected).ok
    /\ VecEq(OptionToVec(result), runtime_values(expected).vals)

\* mutant of AssertTrapPasses: only an execution trap satisfies the assertion
AssertTrapPassesTrapOnly(result) == result.tag = "Err" /\ result.kind = "Trap"

\* the AssertTrap arm: Err(_) is success, Ok(_) panics
AssertTrapPasses(result) == result.tag = "Err"

\* mutant of AfterAssertion: a failed assertion is reported and the loop goes on
AfterAssertionContinue(passed) == "running"

\* assert_eq! and panic! end the run; otherwise the loop goes on
AfterAssertion(passed) == IF passed THEN "running" ELSE "panicked"

\* mutant of FirstIsModule: any first command starts the run
FirstIsAny(command) == TRUE

\* match first_command { &Command::Module { .. } => .., _ => panic!(..) }
FirstIsModule(command) == command.type = "Module"

(***************************************************************************)
(* Conformance harness: the run                                            *)
(***************************************************************************)
HarnessInit ==
    /\ commands \in Scripts
    /\ ip = 1
    /\ module = 0
    /\ programs = 0
    /\ instances = <<>>
    /\ status = "init"
    /\ executed = <<>>
    /\ invoked = <<>>
    /\ outcome = NoOutcome
    /\ BridgeUnused /\ EqUnused /\ LiteralUnused

\* lines 64-85: wast2wasm runs, the JSON file is opened and deserialized
Prepare ==
    /\ status = "init"
    /\ \E ok \in BOOLEAN : status' = IF ok THEN "start" ELSE "aborted"
    /\ UNCHANGED <<commands, ip, module, programs, instances, executed, invoked, outcome>>

\* mutant of Rebind: only the first module is ever bound
RebindOnce(current, new_module) == IF current = 0 THEN new_module ELSE current

\* let (.., mut module) = setup_program(..) and module = new_module
Rebind(current, new_module) == new_module

\* setup_program: a new ProgramInstance and in it a new module instance; any
\* failure (deserialize_file, ProgramInstance::new, add_module) panics
setup_program(loaded, pos) ==
    /\ executed' = Append(executed, pos)
    /\ outcome' = [NoOutcome EXCEPT !.cmd = pos, !.type = "Module", !.passed = loaded]
    /\ UNCHANGED <<commands, invoked>>
    /\ IF loaded
       THEN /\ programs' = programs + 1
            /\ instances' = Append(instances, [program |-> programs + 1, command |-> pos])
            /\ module' = Rebind(module, Len(instances) + 1)
            /\ status' = "running"
            /\ ip' = pos + 1
       ELSE /\ status' = "panicked"
            /\ UNCHANGED <<programs, instances, module, ip>>

\* lines 87-95
FirstCommand ==
    /\ status = "start"
    /\ IF commands = <<>>
       THEN /\ status' = "panicked"          \* spec.commands[0]: index out of bounds
            /\ UNCHANGED <<commands, ip, module, programs, instances, executed, invoked, outcome>>
       ELSE IF FirstIsModule(commands[1])
       THEN \E loaded \in BOOLEAN : setup_program(loaded, 1)
       ELSE /\ status' = "panicked"
            /\ UNCHANGED <<commands, ip, module, programs, instances, executed, invoked, outcome>>

Running == status = "running" /\ ip <= Len(commands)

\* lines 100-103
ModuleArm ==
    /\ Running
    /\ commands[ip].type = "Module"
    /\ \E loaded \in BOOLEAN : setup_program(loaded, ip)

\* match result { .. } of the arm
Verdict(type, result, expected) ==
    IF type = "AssertReturn"
    THEN AssertReturnPasses(result, expected)
    ELSE AssertTrapPasses(result)

\* run_action, then the arm's verdict on its result
Assertion(type) ==
    /\ Running
    /\ commands[ip].type = type
    /\ executed' = Append(executed, ip)
    /\ UNCHANGED <<commands, module, programs, instances>>
    /\ IF ~runtime_values(commands[ip].action.args).ok
       THEN \* runtime_values(args) panics before execute_export is called
            /\ status' = "panicked"
            /\ outcome' = [NoOutcome EXCEPT !.cmd = ip, !.type = type]
            /\ UNCHANGED <<ip, invoked>>
       ELSE \E result \in ActionResults :
            /\ invoked' = Append(invoked, [cmd |-> ip, instance |-> module,
                                           field |-> commands[ip].action.field])
            /\ outcome' = [cmd |-> ip, type |-> type, invoked |-> TRUE,
                           passed |-> Verdict(type, result, commands[ip].expected),
                           result |-> result]
            /\ status' = AfterAssertion(Verdict(type, result, commands[ip].expected))
            /\ ip' = IF AfterAssertion(Verdict(type, result, commands[ip].expected)) = "running"
                     THEN ip + 1 ELSE ip

\* lines 104-117
AssertReturnArm == Assertion("AssertReturn")

\* lines 118-128
AssertTrapArm == Assertion("AssertTrap")

\* the loop runs out of commands and spec() returns
Finish ==
    /\ status = "running"
    /\ ip > Len(commands)
    /\ status' = "passed"
    /\ UNCHANGED <<commands, ip, module, programs, instances, executed, invoked, outcome>>

HarnessNext ==
    \/ Prepare /\ UNCHANGED <<bridgeVars, eqVars, literalVars>>
    \/ FirstCommand /\ UNCHANGED <<bridgeVars, eqVars, literalVars>>
    \/ ModuleArm /\ UNCHANGED <<bridgeVars, eqVars, literalVars>>
    \/ AssertReturnArm /\ UNCHANGED <<bridgeVars, eqVars, literalVars>>
    \/ AssertTrapArm /\ UNCHANGED <<bridgeVars, eqVars, literalVars>>
    \/ Finish /\ UNCHANGED <<bridgeVars, eqVars, literalVars>>

HarnessSpec == HarnessInit /\ [][HarnessNext]_vars

(***************************************************************************)
(* Properties of the bridge                                                *)
(***************************************************************************)
Registered(n) == \E i \in 1..Len(functions) : functions[i].f0 = n

ValidPosition(index) ==
    /\ index >= NATIVE_INDEX_FUNC_MIN
    /\ index - NATIVE_INDEX_FUNC_MIN < Len(functions)

FunctionIndexOps ==
    {"execute_index", "function_type", "function_reference",
     "function_reference_indirect", "function_body", "call_internal_function"}

PureDelegations ==
    {"execute_index", "execute_export", "table", "memory", "global",
     "function_reference", "function_reference_indirect"}

\* C1 as stated: with a function index below the boundary, or with no descriptor
\* registered, every operation of the bridge returns what the base instance returns
C1_Original ==
    last.op # "none" =>
        (( \/ (last.op \in FunctionIndexOps /\ last.arg.index < NATIVE_INDEX_FUNC_MIN)
           \/ functions = <<>> )
         => last.out = last.base)

\* C1 amended: the pure delegations return the base's answer for every argument;
\* function_type (IndexSpace or Internal) and call_internal_function do for an index
\* below the boundary, and export_entry does for a name that is not registered;
\* function_body answers "no body" whatever the base holds
C1_DelegationBelowBase ==
    /\ last.op \in PureDelegations => last.out = last.base
    /\ ( /\ last.op = "function_type"
         /\ last.arg.variant # "External"
         /\ last.arg.index < NATIVE_INDEX_FUNC_MIN ) => last.out = last.base
    /\ (last.op = "call_internal_function" /\ last.arg.index < NATIVE_INDEX_FUNC_MIN)
          => (last.out = last.base /\ last.execs = <<>>)
    /\ (last.op = "export_entry" /\ ~Registered(last.arg.name))
          => last.out = last.base
    /\ last.op = "function_body" => (last.out.tag = "Ok" /\ last.out.kind = "None")

\* a bridge with registered functions answered function_type below the boundary
\* with a signature of the base instance
C1_Witness ==
    /\ last.op = "function_type"
    /\ last.arg.variant = "Internal"
    /\ last.arg.index = NATIVE_INDEX_FUNC_MIN - 1
    /\ last.out.tag = "Ok"
    /\ functions # <<>>

\* the descriptor's signature is the required one
SigMatches(d, sig) == d.f1 = sig.desc.f1 /\ d.f2 = sig.desc.f2

ExportHit ==
    /\ last.arg.name \in DOMAIN by_name
    /\ last.arg.required_type.kind = "Function"
    /\ SigMatches(functions[by_name[last.arg.name] + 1], last.arg.required_type.sig)

\* C2: export_entry returns the Function export at base + position exactly when the
\* name is registered, a function is required and the descriptor at that position has
\* the required signature; in every other case it returns the base's own answer
C2_ExportEntry ==
    last.op = "export_entry" =>
        /\ ExportHit =>
              /\ last.out.tag = "Ok"
              /\ last.out.kind = "Function"
              /\ last.out.index = NATIVE_INDEX_FUNC_MIN + by_name[last.arg.name]
        /\ ~ExportHit => last.out = last.base
        /\ ( /\ last.out.tag = "Ok"
             /\ last.out.kind = "Function"
             /\ last.out.index >= NATIVE_INDEX_FUNC_MIN ) => ExportHit

\* a registered name shadowed the base, which had answered with an error
C2_Witness ==
    /\ last.op = "export_entry"
    /\ last.out.tag = "Ok"
    /\ last.out.index = NATIVE_INDEX_FUNC_MIN + 1
    /\ last.base.tag = "Err"

NativeCase ==
    /\ last.op \in {"function_type", "call_internal_function"}
    /\ last.arg.index >= NATIVE_INDEX_FUNC_MIN
    /\ last.op = "function_type" => last.arg.variant # "External"

\* C3 as stated: at a composite index both operations succeed iff the offset is a
\* valid position, and fail with a Native error otherwise
C3_Original ==
    NativeCase =>
        /\ last.out.tag = "Ok" <=> ValidPosition(last.arg.index)
        /\ ~ValidPosition(last.arg.index)
              => last.out = Err("Native", last.arg.index)

\* C3 amended: function_type succeeds iff the offset is a valid position;
\* call_internal_function reaches the executor iff it is, and can succeed only then;
\* at an invalid offset both fail with a Native error, whatever the base would answer
C3_NativeLookup ==
    NativeCase =>
        /\ last.op = "function_type" =>
              (last.out.tag = "Ok" <=> ValidPosition(last.arg.index))
        /\ (last.op = "function_type" /\ ValidPosition(last.arg.index)) =>
              last.out.sig.desc = functions[last.arg.index - NATIVE_INDEX_FUNC_MIN + 1]
        /\ last.op = "call_internal_function" =>
              /\ Len(last.execs) = 1 <=> ValidPosition(last.arg.index)
              /\ last.out.tag = "Ok" => ValidPosition(last.arg.index)
        /\ ~ValidPosition(last.arg.index) =>
              /\ last.out = Err("Native", last.arg.index)
              /\ last.execs = <<>>

\* a call one past the descriptor list failed although the base would have answered
C3_Witness ==
    /\ last.op = "call_internal_function"
    /\ last.arg.index = NATIVE_INDEX_FUNC_MIN + Len(functions)
    /\ functions # <<>>
    /\ last.out.tag = "Err"
    /\ last.base.tag = "Ok"

\* C4: at any time at most one call is inside UserFunctionExecutor::execute, and it
\* is the call of the thread that holds the executor
C4_OneCallInExecutor ==
    /\ Cardinality({t \in Threads : pc[t] = "execute"}) <= 1
    /\ Cardinality(inflight) <= 1
    /\ \A x \in inflight : executor = x.thread /\ pc[x.thread] = "execute"
    /\ \A t \in Threads : pc[t] = "execute" => \E x \in inflight : x.thread = t

\* one call is inside the executor while the other waits for it
C4_Witness ==
    \E t, u \in Threads : pc[t] = "execute" /\ pc[u] = "write"

(***************************************************************************)
(* Properties of UserFunctionDescriptor::eq                                *)
(***************************************************************************)
\* C5: d1 == d2 iff the parameter lists and the return types are the same, for
\* either variant and whatever the names
C5_EqIgnoresName ==
    eq # "unset" => (eq = "true" <=> (d1.f1 = d2.f1 /\ d1.f2 = d2.f2))

\* two descriptors of different variants and names compared equal
C5_Witness ==
    /\ eq = "true"
    /\ d1.variant # d2.variant
    /\ d1.f0 # d2.f0
    /\ Len(d1.f1) = MaxParams

(***************************************************************************)
(* Properties of the conformance harness                                   *)
(***************************************************************************)
\* what the action of the last assertion produced, as a list of values
Produced == IF outcome.result.some THEN <<outcome.result.v>> ELSE <<>>

\* the expected literals of the last assertion, decoded
Wanted == runtime_values(commands[outcome.cmd].expected)

AtFailedCommand == status = "panicked" /\ ip = outcome.cmd

\* C6: an AssertReturn passes iff its action returned without error and produced
\* exactly the expected values, as many and in the same order; an empty expected
\* list is met only by no value; anything else ends the run at that command
C6_AssertReturn ==
    outcome.type = "AssertReturn" =>
        /\ outcome.passed <=>
              /\ outcome.invoked
              /\ outcome.result.tag = "Ok"
              /\ Wanted.ok
              /\ Produced = Wanted.vals
        /\ outcome.passed => Len(Produced) = Len(commands[outcome.cmd].expected)
        /\ (outcome.passed /\ commands[outcome.cmd].expected = <<>>)
              => ~outcome.result.some
        /\ outcome.passed => status \in {"running", "passed"}
        /\ ~outcome.passed => AtFailedCommand

\* a run ended at an AssertReturn that expected two values and got one of them
C6_Witness ==
    /\ outcome.type = "AssertReturn"
    /\ Len(commands[outcome.cmd].expected) = 2
    /\ outcome.result.tag = "Ok"
    /\ outcome.result.some
    /\ outcome.result.v = Wanted.vals[1]
    /\ AtFailedCommand

\* the 32 bits of a value are those of the number n
HasBits32(v, n) == v.bits[2] = n \div Limb /\ v.bits[1] = n % Limb

ExpectsF32(digits) ==
    /\ outcome.type = "AssertReturn"
    /\ outcome.invoked
    /\ commands[outcome.cmd].expected = <<Literal("f32", digits)>>

IsF32WithBits(r, n) ==
    r.tag = "Ok" /\ r.some /\ r.v.type = "F32" /\ HasBits32(r.v, n)

\* C7: an AssertReturn expecting the f32 literal 2143289344 passes exactly when the
\* result is an f32 whose raw bits are 2143289344; the same holds for the NaN literal
\* 2143289345, so a NaN of another bit pattern is rejected
C7_BitwiseFloat ==
    /\ ExpectsF32(NaNA) => (outcome.passed <=> IsF32WithBits(outcome.result, 2143289344))
    /\ ExpectsF32(NaNB) => (outcome.passed <=> IsF32WithBits(outcome.result, 2143289345))

\* the expected NaN was matched by a result with the same bits
C7_Witness ==
    /\ ExpectsF32(NaNA)
    /\ outcome.passed
    /\ IsNaN32(outcome.result.v.bits)

\* the expected NaN was refused for a NaN result with other bits
C7_WitnessRejected ==
    /\ ExpectsF32(NaNA)
    /\ ~outcome.passed
    /\ outcome.result.tag = "Ok" /\ outcome.result.some
    /\ outcome.result.v.type = "F32"
    /\ IsNaN32(outcome.result.v.bits)

\* C8: an AssertTrap passes iff its action was run and failed, with any kind of
\* error; an action that returns, with or without a value, ends the run there
C8_AssertTrap ==
    outcome.type = "AssertTrap" =>
        /\ outcome.passed <=> (outcome.invoked /\ outcome.result.tag = "Err")
        /\ outcome.passed => status \in {"running", "passed"}
        /\ ~outcome.passed => AtFailedCommand

\* an AssertTrap was satisfied by an error that is no execution trap
C8_Witness ==
    /\ outcome.type = "AssertTrap"
    /\ outcome.passed
    /\ outcome.result.kind = "Function"

AssertionFailed == outcome.type \in {"AssertReturn", "AssertTrap"} /\ ~outcome.passed

C9_Prefix ==
    /\ executed = [i \in 1..Len(executed) |-> i]
    /\ Len(executed) <= Len(commands)
    /\ AssertionFailed => (status = "panicked" /\ Len(executed) = outcome.cmd)

C9_Step ==
    /\ executed' = executed \/ executed' = Append(executed, Len(executed) + 1)
    /\ status = "panicked" =>
          (status' = "panicked" /\ executed' = executed /\ invoked' = invoked)

\* C9: the commands executed so far are always the first k commands of the script,
\* each once and in order; a step executes at most the next command; and once an
\* assertion has failed the run has ended and executes nothing more
C9_InOrderNoRecovery == []C9_Prefix /\ [][C9_Step]_vars

\* an assertion failed with commands of the script still to come
C9_Witness ==
    /\ AssertionFailed
    /\ outcome.invoked
    /\ status = "panicked"
    /\ Len(executed) = 2
    /\ Len(commands) = MaxCommands

FirstCommandIsModule == commands # <<>> /\ commands[1].type = "Module"

\* C10: commands are executed and actions invoked only in a script that starts with
\* a Module command, and only once that module is loaded and bound; a script that
\* starts with an assertion ends in a panic with no module bound and no action invoked
C10_FirstIsModule ==
    /\ (status \in {"running", "passed"} \/ executed # <<>> \/ invoked # <<>>)
          => (FirstCommandIsModule /\ executed # <<>> /\ executed[1] = 1)
    /\ (Len(executed) >= 2 \/ invoked # <<>>) => (module # 0 /\ programs >= 1)
    /\ \A i \in 1..Len(invoked) : invoked[i].cmd > 1 /\ invoked[i].instance # 0
    /\ (commands # <<>> /\ commands[1].type # "Module")
          => /\ status \in {"init", "aborted", "start", "panicked"}
             /\ executed = <<>> /\ invoked = <<>> /\ module = 0

\* a script that starts with an assertion has panicked at its first command
C10_Witness ==
    /\ commands # <<>>
    /\ commands[1].type = "AssertReturn"
    /\ status = "panicked"
    /\ invoked = <<>>

(***************************************************************************)
(* Properties of the harness: registries and the current instance          *)
(***************************************************************************)
\* C11 as stated: a run creates exactly one Program Registry, whatever the number of
\* Module commands, and that registry owns every module instance the run created
C11_OneRegistry ==
    /\ programs <= 1
    /\ instances # <<>> => programs = 1
    /\ \A i \in 1..Len(instances) : instances[i].program = 1

\* the Module command that most recently precedes position pos (0: none)
RECURSIVE LastModuleBefore(_)
LastModuleBefore(pos) ==
    IF pos <= 1 THEN 0
    ELSE IF commands[pos - 1].type = "Module" THEN pos - 1
    ELSE LastModuleBefore(pos - 1)

\* C18: every assertion invokes its action's field as an export of the instance that
\* the most recent Module command before it loaded; the current instance is always
\* the newest one, so no assertion runs against an earlier instance
C18_CurrentInstance ==
    /\ \A k \in 1..Len(invoked) :
          /\ invoked[k].instance \in 1..Len(instances)
          /\ instances[invoked[k].instance].command = LastModuleBefore(invoked[k].cmd)
          /\ invoked[k].field = commands[invoked[k].cmd].action.field
          /\ commands[invoked[k].cmd].type \in {"AssertReturn", "AssertTrap"}
    /\ module = Len(instances)

\* an assertion ran after a second Module command, against the second instance
C18_Witness ==
    /\ Len(instances) = 2
    /\ invoked # <<>>
    /\ invoked[Len(invoked)].instance = 2
    /\ invoked[Len(invoked)].cmd = 3
    /\ commands[2].type = "Module"

(***************************************************************************)
(* Properties of literal decoding                                          *)
(***************************************************************************)
\* the number fits the width: every limb above it is zero
Fits(u, nlimbs) == \A i \in (nlimbs + 1)..Len(u) : u[i] = 0

RECURSIVE AddLimbs(_, _, _, _, _)
\* a + b, limb by limb, the carry out as one more limb
AddLimbs(a, b, i, carry, acc) ==
    IF i > Len(a) THEN Append(acc, carry)
    ELSE LET x == a[i] + b[i] + carry
         IN  AddLimbs(a, b, i + 1, x \div Limb, Append(acc, x % Limb))

\* the literal is the number written as an unsigned decimal
UnsignedLiteral ==
    \E spelling \in {"plain", "plus", "zero"} : literal.value = Spell(spelling, number)

\* v is u below 2^31 and u - 2^32 from 2^31 on
IsSigned32(v, u) ==
    /\ v.type = "I32"
    /\ v.int % Limb = u[1]
    /\ v.int \div Limb = (IF u[2] < Limb \div 2 THEN u[2] ELSE u[2] - Limb)

\* v is u below 2^63 and u - 2^64 from 2^63 on: then v < 0 and |v| + u = 2^64
IsSigned64(v, u) ==
    /\ v.type = "I64"
    /\ IF u[4] < Limb \div 2
       THEN v.neg = FALSE /\ v.bits = SubSeq(u, 1, 4)
       ELSE v.neg = TRUE /\ AddLimbs(v.bits, SubSeq(u, 1, 4), 1, 0, <<>>) = <<0, 0, 0, 0, 1>>

\* C12 as stated, in its last part: a decoded i32 or i64 value is reachable from
\* exactly one literal, the one it was decoded from
C12_Original ==
    (decoded.done /\ decoded.ok /\ literal.value_type \in {"i32", "i64"}) =>
        \A other \in Samples, spelling \in Spellings :
            LET again == runtime_value(Literal(literal.value_type, Spell(spelling, other)))
            IN  (again.ok /\ again.v = decoded.v) => Spell(spelling, other) = literal.value

\* C12, amended: an i32 literal that denotes u, with or without a leading "+" or
\* leading zeros, decodes exactly when u < 2^32, to u when u < 2^31 and to u - 2^32
\* otherwise; an i64 literal likewise with 2^64 and 2^63; and two different numbers
\* of the width never decode to the same value
C12_TwosComplement ==
    (decoded.done /\ UnsignedLiteral) =>
        /\ literal.value_type = "i32" =>
              /\ decoded.ok <=> Fits(number, 2)
              /\ decoded.ok =>
                    /\ IsSigned32(decoded.v, number)
                    /\ \A other \in Samples :
                          (other # number /\ Fits(other, 2)) =>
                             runtime_value(Literal("i32", ToDecimal(other))).v # decoded.v
        /\ literal.value_type = "i64" =>
              /\ decoded.ok <=> Fits(number, 4)
              /\ decoded.ok =>
                    /\ IsSigned64(decoded.v, number)
                    /\ \A other \in Samples :
                          (other # number /\ Fits(other, 4)) =>
                             runtime_value(Literal("i64", ToDecimal(other))).v # decoded.v

\* the i32 literal "4294967295" has been decoded, to -1
C12_Witness ==
    /\ decoded.done /\ decoded.ok
    /\ literal = Literal("i32", AllOnes)
    /\ number = <<65535, 65535, 0, 0, 0>>
    /\ decoded.v = I32(-1)

(***************************************************************************)
(* Further properties of the bridge                                        *)
(***************************************************************************)
\* C13 as stated: function_type_by_index(type_index) returns, for every type_index,
\* exactly what the base instance's function_type_by_index(type_index) returns
C13_PureDelegation ==
    last.op = "function_type_by_index" => last.out = last.base

\* C14: a call_internal_function at a valid descriptor position has invoked the
\* executor exactly once, with the name of the descriptor at that position and the
\* caller's context, and returns what the executor returned, value, none or error
C14_NativeCall ==
    /\ (last.op = "call_internal_function" /\ ValidPosition(last.arg.index)) =>
          /\ Len(last.execs) = 1
          /\ last.execs[1].name = functions[last.arg.index - NATIVE_INDEX_FUNC_MIN + 1].f0
          /\ last.execs[1].outer = last.arg.outer
          /\ last.out = last.execs[1].result
    /\ \A x \in inflight :
          /\ x.name = functions[call[x.thread].index - NATIVE_INDEX_FUNC_MIN + 1].f0
          /\ x.outer = call[x.thread].outer
          /\ \A y \in inflight : y.thread = x.thread => y = x

\* the second of two differently named descriptors was called with context ctx2,
\* and the executor's error came back
C14_Witness ==
    /\ Len(functions) = 2
    /\ functions[1].f0 = "f" /\ functions[2].f0 = "g"
    /\ last.op = "call_internal_function"
    /\ last.arg.index = NATIVE_INDEX_FUNC_MIN + 1
    /\ last.arg.outer = "ctx2"
    /\ Len(last.execs) = 1
    /\ last.execs[1].name = "g"
    /\ last.out = Err("Trap", 0)

\* the last position (1-based) of the descriptor list that carries the name
LastPosition(n) ==
    CHOOSE i \in 1..Len(functions) :
        functions[i].f0 = n /\ \A j \in (i + 1)..Len(functions) : functions[j].f0 # n

\* C15: whatever names repeat in the descriptor list, the name-to-position index has
\* an entry for every name in it, each the position of the last descriptor of that
\* name; export_entry for a registered name answers for that last descriptor only:
\* its composite index when its signature is the required one, else the base's answer
C15_LastNameWins ==
    /\ DOMAIN by_name = {functions[i].f0 : i \in 1..Len(functions)}
    /\ \A n \in DOMAIN by_name : by_name[n] = LastPosition(n) - 1
    /\ ( /\ last.op = "export_entry"
         /\ Registered(last.arg.name)
         /\ last.arg.required_type.kind = "Function" ) =>
            IF SigMatches(functions[LastPosition(last.arg.name)], last.arg.required_type.sig)
            THEN last.out = Internal("Function",
                                NATIVE_INDEX_FUNC_MIN + LastPosition(last.arg.name) - 1)
            ELSE last.out = last.base

\* two descriptors named "f" with different signatures: the required signature is the
\* first one's, and export_entry gave the base's error, not the first one's index
C15_Witness ==
    /\ Len(functions) = 2
    /\ functions[1].f0 = "f" /\ functions[2].f0 = "f"
    /\ by_name["f"] = 1
    /\ last.op = "export_entry"
    /\ last.arg.name = "f"
    /\ last.arg.required_type.kind = "Function"
    /\ SigMatches(functions[1], last.arg.required_type.sig)
    /\ ~SigMatches(functions[2], last.arg.required_type.sig)
    /\ last.base.tag = "Err"
    /\ last.out = last.base

\* C19: every value of the name-to-position index is a position of the descriptor
\* list, the descriptor there carries the name, function_type at base + position
\* succeeds whatever the base would answer, and export_entry never panics
C19_ByNameValid ==
    /\ \A n \in DOMAIN by_name :
          /\ by_name[n] \in 0..(Len(functions) - 1)
          /\ functions[by_name[n] + 1].f0 = n
          /\ \A base_ft \in TypeAnswers :
                function_type(ItemIndex("Internal", NATIVE_INDEX_FUNC_MIN + by_name[n]),
                              base_ft).tag = "Ok"
    /\ last.op = "export_entry" => last.out.tag # "Panic"

\* export_entry went through the expect for the second of two names: the signature
\* was not the required one and the base's answer came back
C19_Witness ==
    /\ Len(functions) = 2
    /\ functions[1].f0 = "f" /\ functions[2].f0 = "g"
    /\ last.op = "export_entry"
    /\ last.arg.name = "g"
    /\ by_name["g"] = 1
    /\ last.arg.required_type.kind = "Function"
    /\ ~SigMatches(functions[2], last.arg.required_type.sig)
    /\ last.out = last.base
    /\ last.out.tag = "Ok"

C16_Delegates ==
    last.op \in PureDelegations => (last.out = last.base /\ last.execs = <<>>)

C16_Frame ==
    /\ functions' = functions
    /\ by_name' = by_name
    /\ (last'.op \in PureDelegations /\ last.op = "none") =>
          (executor' = executor /\ inflight' = inflight /\ pc' = pc /\ call' = call)

\* C16: table, memory, global, function_reference, function_reference_indirect,
\* execute_index and execute_export return the base's result for every argument,
\* without a call of the executor and without touching its lock; and no step of the
\* bridge changes the descriptor list or the name-to-position index
C16_PureDelegationFrame == []C16_Delegates /\ [][C16_Frame]_vars

\* execute_export of a name registered as a native function returned the base's error
C16_Witness ==
    /\ last.op = "execute_export"
    /\ last.arg.name \in DOMAIN by_name
    /\ last.base = Err("Trap", 0)
    /\ last.out = last.base
    /\ executor = "free"
    /\ inflight = {}

(***************************************************************************)
(* Re-entry and release of the executor                                    *)
(***************************************************************************)
\* a call made from inside execute has returned to the interpreter execute re-entered
NestedCallReturned ==
    /\ last.op = "call_internal_function"
    /\ last.thread \in Threads
    /\ held[last.thread] # <<>>

\* the call made from inside execute waits for the executor
WaitsInside(t) == pc[t] = "write" /\ held[t] # <<>>

\* C17 as stated: a call_internal_function with a composite index (an index >= base)
\* made from inside execute on the same bridge never completes
C17_Original ==
    ~(NestedCallReturned /\ last.arg.index >= NATIVE_INDEX_FUNC_MIN)

C17_NeverReturns ==
    /\ ~(NestedCallReturned /\ ValidPosition(last.arg.index))
    /\ \A t \in Threads : WaitsInside(t) => executor = t

C17_Stuck ==
    \A t \in Threads :
        WaitsInside(t) =>
            /\ pc'[t] = pc[t] /\ call'[t] = call[t] /\ held'[t] = held[t]
            /\ executor' = executor
            /\ inflight' = inflight

\* C17, amended: a call_internal_function at a valid descriptor position made from
\* inside execute on the same bridge waits for the executor its own outer call holds;
\* from then on neither call makes a step, the executor stays held and the inner call
\* never returns
C17_ReentryDeadlocks == []C17_NeverReturns /\ [][C17_Stuck]_vars

\* the inner call waits for the write lock that the same caller holds
C17_Witness ==
    /\ WaitsInside("t1")
    /\ executor = "t1"
    /\ Len(held["t1"]) = 1
    /\ ValidPosition(call["t1"].index)
    /\ \E x \in inflight : x.thread = "t1" /\ x.depth = 0

C20_Released ==
    /\ (\A t \in Threads : pc[t] = "idle" /\ held[t] = <<>>) => executor = "free"
    /\ executor # "free" =>
          (pc[executor] = "execute" /\ ValidPosition(call[executor].index))
    /\ \A t \in Threads : pc[t] = "write" => ValidPosition(call[t].index)
    /\ (last.op = "call_internal_function" /\ ~ValidPosition(last.arg.index)) =>
          last.execs = <<>>
    /\ (last.op = "call_internal_function" /\ last.execs # <<>>) =>
          executor # last.thread

C20_Asked == pc[MainThread] = "write"

C20_Completed ==
    /\ last.op = "call_internal_function"
    /\ last.thread = MainThread
    /\ Len(last.execs) = 1
    /\ pc[MainThread] = "idle"

\* C20: the executor is held only while an execute call at a valid position runs; it
\* is free again when that call has returned, with a value or with an error, and a
\* call with an out-of-range index never asks for it; so whenever one caller, after
\* its earlier calls have returned, makes a native call at a valid position, that call
\* obtains the executor and completes
C20_ReleasedAndObtained == []C20_Released /\ (C20_Asked ~> C20_Completed)

\* a native call ended with the executor's error, and the executor is free again
C20_Witness ==
    /\ last.op = "call_internal_function"
    /\ Len(last.execs) = 1
    /\ last.execs[1].result = Err("Native", 0)
    /\ last.out = Err("Native", 0)
    /\ executor = "free"
    /\ pc[MainThread] = "idle"

============================================================================
